---- MODULE Spec2Model ----
(***************************************************************************)
(* Model of dev-server.py: the FableFlow development server.  One request  *)
(* is handled at a time (socketserver.TCPServer); every request handler is *)
(* one action; main() is a small process with its own program counter.     *)
(***************************************************************************)
EXTENDS Integers, Sequences, FiniteSets, TLC

VARIABLES
    platform,      \* operating system the interpreter runs on
    pc,            \* position of main()
    bindAttempts,  \* number of ReusableTCPServer(("", PORT), ...) constructions
    bindCause,     \* symbolic cause of the last failed bind ("none" if none)
    reclaims,      \* number of os.system("lsof ... | xargs kill -9") calls
    exitCode,      \* process exit status, NoExit while running
    phase,         \* "idle": waiting in serve_forever, "done": a request was handled
    req,           \* the inbound request of the current connection
    env,           \* what the backend and the file system do during this request
    wire,          \* everything written to the client socket (self.wfile)
    calls,         \* requests sent to the backend during this request
    trace,         \* the handlers that ran for this request, in order
    escaped,       \* an exception left the handler (BaseServer.handle_error)
    failedBefore   \* some earlier request ended in a backend transport failure

vars == <<platform, pc, bindAttempts, bindCause, reclaims, exitCode,
          phase, req, env, wire, calls, trace, escaped, failedBefore>>

(***************************************************************************)
(* Bounds and program constants                                            *)
(***************************************************************************)
MaxHops == 2          \* longest chain of backend responses one urlopen follows

PORT == 3000
BACKEND_PORT == 8080
BACKEND_HOST == "localhost"

NoExit == -1
NoRequest == [method |-> "", path |-> [segs |-> <<>>, query |-> ""],
              headers |-> <<>>, body |-> <<>>]

(***************************************************************************)
(* Header names.  str.lower(), str.capitalize() and str.title() are        *)
(* modelled by the spellings of each name that occur on the wire.          *)
(***************************************************************************)
NameForms ==
    { <<"host", "Host", "Host", "HOST">>,
      <<"content-type", "Content-type", "Content-Type", "CONTENT-TYPE">>,
      <<"content-length", "Content-length", "Content-Length", "CONTENT-LENGTH">>,
      <<"content-encoding", "Content-encoding", "Content-Encoding", "CONTENT-ENCODING">>,
      <<"transfer-encoding", "Transfer-encoding", "Transfer-Encoding", "TRANSFER-ENCODING">>,
      <<"connection", "Connection", "Connection", "CONNECTION">>,
      <<"authorization", "Authorization", "Authorization", "AUTHORIZATION">>,
      <<"user-agent", "User-agent", "User-Agent", "USER-AGENT">>,
      <<"accept-encoding", "Accept-encoding", "Accept-Encoding", "ACCEPT-ENCODING">>,
      <<"location", "Location", "Location", "LOCATION">>,
      <<"set-cookie", "Set-cookie", "Set-Cookie", "SET-COOKIE">>,
      <<"x-tag", "X-tag", "X-Tag", "X-TAG">>,
      <<"x-req-id", "X-req-id", "X-Req-Id", "X-REQ-ID">>,
      <<"server", "Server", "Server", "SERVER">>,
      <<"date", "Date", "Date", "DATE">>,
      <<"last-modified", "Last-modified", "Last-Modified", "LAST-MODIFIED">>,
      <<"access-control-allow-origin", "Access-control-allow-origin",
        "Access-Control-Allow-Origin", "ACCESS-CONTROL-ALLOW-ORIGIN">>,
      <<"access-control-allow-methods", "Access-control-allow-methods",
        "Access-Control-Allow-Methods", "ACCESS-CONTROL-ALLOW-METHODS">>,
      <<"access-control-allow-headers", "Access-control-allow-headers",
        "Access-Control-Allow-Headers", "ACCESS-CONTROL-ALLOW-HEADERS">> }

FormsOf(n) == CHOOSE t \in NameForms : \E i \in 1..4 : t[i] = n

Lower(n) == FormsOf(n)[1]
Capitalize(n) == FormsOf(n)[2]
Title(n) == FormsOf(n)[3]

\* value = v; then the body F(value): v is computed once, as an assignment does
Bind(v, F(_)) == CHOOSE y \in {F(x) : x \in {v}} : TRUE

(***************************************************************************)
(* Python dicts and email.message.Message, as sequences of <<key, value>>  *)
(***************************************************************************)
HasKey(d, k) == \E i \in 1..Len(d) : d[i][1] = k

\* d[k] = v : overwrite in place when the key exists, append otherwise
DictSet(d, k, v) ==
    IF HasKey(d, k)
    THEN [i \in 1..Len(d) |-> IF d[i][1] = k THEN <<k, v>> ELSE d[i]]
    ELSE Append(d, <<k, v>>)

\* Message.get(name): the first header whose name matches case-insensitively
MsgHas(m, name) == \E i \in 1..Len(m) : Lower(m[i][1]) = Lower(name)

MsgGet(m, name) ==
    Bind({i \in 1..Len(m) : Lower(m[i][1]) = Lower(name)}, LAMBDA idx :
         m[CHOOSE i \in idx : \A j \in idx : i <= j][2])

\* a for loop over the sequence s: acc = op(acc, item), starting from base
ForEach(op(_, _), base, s) ==
    LET step[i \in 0..Len(s)] == IF i = 0 THEN base ELSE op(step[i - 1], s[i])
    IN  step[Len(s)]

\* dict(self.headers): keys() lists every header line, m[key] takes the first match
DictFromMessage(m) ==
    ForEach(LAMBDA acc, kv : DictSet(acc, kv[1], MsgGet(m, kv[1])), <<>>, m)

\* set of the <<name, value>> pairs of a header list, names compared case-insensitively
HeaderSet(h) == { <<Lower(h[i][1]), h[i][2]>> : i \in 1..Len(h) }

\* int(text) for the Content-Length values that occur
IntLiterals == {"0", "2"}
ParseInt(s) == CASE s = "0" -> 0 [] s = "2" -> 2

(***************************************************************************)
(* Paths: "/" followed by the segments joined with "/", then "?query"      *)
(***************************************************************************)
\* self.path.startswith("/" + prefix + "/")
StartsWith(path, prefix) == Len(path.segs) >= 2 /\ path.segs[1] = prefix

(***************************************************************************)
(* Inbound requests                                                        *)
(***************************************************************************)
Methods == {"GET", "POST", "PUT", "DELETE", "OPTIONS"}

Paths ==
    { [segs |-> <<"">>, query |-> ""],                         \* /
      [segs |-> <<"api">>, query |-> ""],                      \* /api
      [segs |-> <<"api", "books">>, query |-> ""],             \* /api/books
      [segs |-> <<"api", "books">>, query |-> "q=1"],          \* /api/books?q=1
      [segs |-> <<"read", "7">>, query |-> ""],                \* /read/7
      [segs |-> <<"static", "app.js">>, query |-> ""],         \* /static/app.js
      [segs |-> <<"some", "client", "route">>, query |-> ""] } \* /some/client/route

HostHdr == <<"Host", "localhost:3000">>
JsonBody == <<123, 125>>

\* <<header lines, body bytes>> as the client sent them
Payloads ==
    { << <<HostHdr>>, <<>> >>,
      << <<HostHdr, <<"Content-Type", "application/json">>, <<"Content-Length", "2">> >>, JsonBody >>,
      << <<HostHdr, <<"X-Tag", "a">>, <<"x-tag", "b">> >>, <<>> >>,
      << <<HostHdr, <<"Connection", "keep-alive">>, <<"Authorization", "Bearer t">> >>, <<>> >>,
      << <<HostHdr, <<"Content-Length", "abc">> >>, <<>> >>,
      << <<HostHdr, <<"Transfer-Encoding", "chunked">> >>, JsonBody >> }

Requests ==
    { [method |-> m, path |-> p, headers |-> pl[1], body |-> pl[2]] :
        m \in Methods, p \in Paths, pl \in Payloads }

(***************************************************************************)
(* Environment of one request: the backend, the file system, the client    *)
(***************************************************************************)
RespHdrA == << <<"Content-Type", "application/json">>, <<"Content-Length", "2">>,
               <<"X-Req-Id", "r1">> >>
RespHdrB == << <<"content-encoding", "gzip">>, <<"TRANSFER-ENCODING", "chunked">>,
               <<"Set-Cookie", "a=1">>, <<"Set-Cookie", "b=2">> >>
RedirectTarget == [segs |-> <<"api", "v2", "books">>, query |-> ""]
LocationHdr == <<"Location", "/api/v2/books">>

Resp(code, headers, body, truncated) ==
    [code |-> code, headers |-> headers, body |-> body, truncated |-> truncated]

Found == Resp(302, <<LocationHdr>>, <<>>, FALSE)

Resps ==
    { Resp(200, RespHdrA, JsonBody, FALSE),
      Resp(200, RespHdrB, JsonBody, FALSE),
      Resp(200, RespHdrA, JsonBody, TRUE),       \* connection drops inside the body
      Resp(201, RespHdrA, JsonBody, FALSE),
      Resp(404, RespHdrA, JsonBody, FALSE),
      Resp(500, RespHdrB, JsonBody, FALSE),
      Resp(302, RespHdrA, <<>>, FALSE),          \* redirect status without Location
      Resp(307, <<LocationHdr>>, <<>>, FALSE),
      Found }

TransportFailures == {"[Errno 111] Connection refused", "timed out"}

\* k redirects followed by one more response
Chain(k, r) == [i \in 1..(k + 1) |-> IF i <= k THEN Found ELSE r]

Backends ==
    { [reach |-> f, resps |-> <<>>] : f \in TransportFailures }
    \cup { [reach |-> "ok", resps |-> Chain(k, r)] : k \in 0..(MaxHops - 1), r \in Resps }

DefaultBackend == [reach |-> "ok", resps |-> <<Resp(200, RespHdrA, JsonBody, FALSE)>>]

IndexStates == {"readable", "missing", "unreadable"}
StaticStates == {"file", "missing"}
IndexBytes == <<60, 104, 62>>
FileBytes == <<47, 47>>

Envs ==
    { [backend |-> b, index |-> "readable", static |-> "file", clientOpen |-> o] :
        b \in Backends, o \in BOOLEAN }
    \cup { [backend |-> DefaultBackend, index |-> i, static |-> s, clientOpen |-> o] :
        i \in IndexStates, s \in StaticStates, o \in BOOLEAN }

NoEnv == [backend |-> [reach |-> "", resps |-> <<>>], index |-> "", static |-> "",
          clientOpen |-> TRUE]

(***************************************************************************)
(* What is written to the client                                           *)
(***************************************************************************)
StatusLine(code, msg) == [kind |-> "status", code |-> code, msg |-> msg]
HeaderLine(name, value) == [kind |-> "header", name |-> name, value |-> value]
EndOfHeaders == [kind |-> "end"]
BodyBytes(data) == [kind |-> "body", data |-> data]
ErrorPage(code, msg) == [kind |-> "errorpage", code |-> code, msg |-> msg]

\* BaseHTTPRequestHandler.responses[code][0]
Reason(code) ==
    CASE code = 200 -> "OK"
      [] code = 201 -> "Created"
      [] code = 302 -> "Found"
      [] code = 307 -> "Temporary Redirect"
      [] code = 404 -> "Not Found"
      [] code = 500 -> "Internal Server Error"
      [] code = 501 -> "Not Implemented"
      [] code = 502 -> "Bad Gateway"
      [] OTHER -> ""

\* a handler instance: header buffer, socket output, backend calls, pending exception
NewHandler ==
    [buf |-> <<>>, wire |-> <<>>, calls |-> <<>>, trace |-> <<>>,
     raised |-> FALSE, exc |-> <<>>]

Raise(h, e) == [h EXCEPT !.raised = TRUE, !.exc = e]

Enter(h, name) == [h EXCEPT !.trace = Append(@, name)]

send_header(h, name, value) ==
    IF h.raised THEN h ELSE [h EXCEPT !.buf = Append(@, HeaderLine(name, value))]

send_response(h, code, msg) ==
    IF h.raised THEN h
    ELSE send_header(
           send_header([h EXCEPT !.buf = Append(@, StatusLine(code, msg))],
                       "Server", "SimpleHTTP/0.6"),
           "Date", "now")

\* self.wfile.write(...): raises once the client has closed the connection
wfile_write(h, items, open) ==
    IF h.raised THEN h
    ELSE IF open THEN [h EXCEPT !.wire = @ \o items]
    ELSE Raise(h, <<"[Errno 32] Broken pipe">>)

end_headers(h, open) ==
    IF h.raised THEN h
    ELSE Bind(wfile_write([h EXCEPT !.buf = Append(@, EndOfHeaders)],
                          Append(h.buf, EndOfHeaders), open),
              LAMBDA w : IF w.raised THEN w ELSE [w EXCEPT !.buf = <<>>])

send_cors_headers(h) ==
    send_header(
      send_header(
        send_header(h, "Access-Control-Allow-Origin", "*"),
        "Access-Control-Allow-Methods", "GET, POST, PUT, DELETE, OPTIONS"),
      "Access-Control-Allow-Headers", "Content-Type, Authorization")

send_error(h, code, msg, open) ==
    wfile_write(
      end_headers(
        send_header(
          send_header(
            send_header(send_response(Enter(h, "send_error"), code, msg),
                        "Connection", "close"),
            "Content-Type", "text/html;charset=utf-8"),
          "Content-Length", "len"),
        open),
      <<ErrorPage(code, msg)>>, open)

(***************************************************************************)
(* urllib.request: from the Request object to the bytes sent to the backend*)
(***************************************************************************)
\* Request.__init__: for key, value in headers.items(): self.add_header(key, value)
AddHeaders(d) ==
    ForEach(LAMBDA acc, kv : DictSet(acc, Capitalize(kv[1]), kv[2]), <<>>, d)

Request(path, data, method, headers) ==
    [method |-> method, host |-> BACKEND_HOST, port |-> BACKEND_PORT, path |-> path,
     headers |-> AddHeaders(headers), unredirected |-> <<>>, data |-> data]

has_header(r, name) == HasKey(r.headers, name) \/ HasKey(r.unredirected, name)

AddUnredirected(r, name, value) ==
    [r EXCEPT !.unredirected = DictSet(@, Capitalize(name), value)]

\* AbstractHTTPHandler.do_request_
do_request_(r) ==
    Bind(IF r.data # <<>> /\ ~has_header(r, "Content-type")
         THEN AddUnredirected(r, "Content-type", "application/x-www-form-urlencoded")
         ELSE r, LAMBDA r1 :
    Bind(IF r.data # <<>> /\ ~has_header(r1, "Content-length")
            /\ ~has_header(r1, "Transfer-encoding")
         THEN AddUnredirected(r1, "Content-length", ToString(Len(r.data)))
         ELSE r1, LAMBDA r2 :
    Bind(IF ~has_header(r2, "Host")
         THEN AddUnredirected(r2, "Host", "localhost:8080")
         ELSE r2, LAMBDA r3 :
    IF ~has_header(r3, "User-agent")
    THEN AddUnredirected(r3, "User-agent", "Python-urllib")
    ELSE r3)))

\* base.update({k: v for k, v in d.items() if k not in base})
UpdateMissing(base, d) ==
    ForEach(LAMBDA acc, kv : IF HasKey(base, kv[1]) THEN acc ELSE Append(acc, kv), base, d)

\* {name.title(): val for name, val in d.items()}
TitleAll(d) ==
    ForEach(LAMBDA acc, kv : DictSet(acc, Title(kv[1]), kv[2]), <<>>, d)

\* AbstractHTTPHandler.do_open followed by http.client's _send_request:
\* the request as the backend receives it
Sent(r) ==
    Bind(TitleAll(DictSet(UpdateMissing(r.unredirected, r.headers), "Connection", "close")),
         LAMBDA titled :
    Bind(IF MsgHas(titled, "accept-encoding") THEN titled
         ELSE Append(titled, <<"Accept-Encoding", "identity">>), LAMBDA enc :
    [method |-> r.method, host |-> r.host, port |-> r.port, path |-> r.path,
     headers |-> IF ~MsgHas(enc, "content-length") /\ r.data = <<>>
                    /\ r.method \in {"POST", "PUT", "PATCH"}
                 THEN Append(enc, <<"Content-Length", "0">>)
                 ELSE enc,
     body |-> r.data]))

WithoutContentHeaders(d) ==
    SelectSeq(d, LAMBDA kv : Lower(kv[1]) \notin {"content-length", "content-type"})

\* HTTPRedirectHandler.redirect_request: a body-less request for the new URL
redirect_request(r, newpath) ==
    Request(newpath, <<>>, IF r.method = "HEAD" THEN "HEAD" ELSE "GET",
            WithoutContentHeaders(r.headers))

Redirectable(r, code) ==
    \/ code \in {301, 302, 303, 307, 308} /\ r.method \in {"GET", "HEAD"}
    \/ code \in {301, 302, 303} /\ r.method = "POST"

HTTPError(code) == <<"HTTP Error ", ToString(code), ": ", Reason(code)>>
URLError(reason) == <<"<urlopen error ", reason, ">">>

\* the response at hop i makes urlopen issue a further request; the last response
\* of the chain is where the handler's redirect limit stops it (HTTPError)
Follows(r, backend, i) ==
    /\ backend.resps[i].code \in {301, 302, 303, 307, 308}
    /\ MsgHas(backend.resps[i].headers, "location")
    /\ Redirectable(r, backend.resps[i].code)
    /\ i < Len(backend.resps)

\* the requests urlopen issues: hop i + 1 is the redirect of hop i
Hops(r, n) ==
    LET reqAt[i \in 1..n] ==
            IF i = 1 THEN r ELSE redirect_request(reqAt[i - 1], RedirectTarget)
    IN  [i \in 1..n |-> reqAt[i]]

\* urllib.request.urlopen(req): [calls, raised, exc, resp]; `attempts` is the
\* number of times a request that fails at transport level is sent
Open(r, backend, attempts) ==
    IF backend.reach # "ok"
    THEN [calls |-> [i \in 1..attempts |-> Sent(do_request_(r))], raised |-> TRUE,
          exc |-> URLError(backend.reach), resp |-> Resp(0, <<>>, <<>>, FALSE)]
    ELSE Bind(Hops(r, Len(backend.resps)), LAMBDA reqs :
         Bind(CHOOSE i \in 1..Len(reqs) :
                /\ \A j \in 1..(i - 1) : Follows(reqs[j], backend, j)
                /\ ~Follows(reqs[i], backend, i), LAMBDA last :
         Bind([i \in 1..last |-> Sent(do_request_(reqs[i]))], LAMBDA sent :
         Bind(backend.resps[last], LAMBDA resp :
              IF resp.code >= 200 /\ resp.code < 300
              THEN [calls |-> sent, raised |-> FALSE, exc |-> <<>>, resp |-> resp]
              ELSE [calls |-> sent, raised |-> TRUE, exc |-> HTTPError(resp.code),
                    resp |-> resp]))))

\* variant: a transport failure is retried once before giving up
urlopen_retry(r, backend) == Open(r, backend, 2)

urlopen(r, backend) == Open(r, backend, 1)

(***************************************************************************)
(* FableFlowDevHandler                                                     *)
(***************************************************************************)
ExcludedHeaders == {"content-encoding", "content-length", "transfer-encoding"}

\* variant: the exclusion test compares the name as received, without lower()
CopyHeaders_exact(h, hdrs) ==
    ForEach(LAMBDA acc, kv : IF kv[1] \notin ExcludedHeaders
                              THEN send_header(acc, kv[1], kv[2])
                              ELSE acc,
            h, hdrs)

\* for header, value in response.headers.items(): copy unless excluded
CopyHeaders(h, hdrs) ==
    ForEach(LAMBDA acc, kv : IF Lower(kv[1]) \notin ExcludedHeaders
                              THEN send_header(acc, kv[1], kv[2])
                              ELSE acc,
            h, hdrs)

\* lines 56-60: the body is read only when Content-Length parses to a positive number
ReadBody(h, r) ==
    IF ~MsgHas(r.headers, "Content-Length") THEN [h |-> h, data |-> <<>>]
    ELSE Bind(MsgGet(r.headers, "Content-Length"), LAMBDA text :
              IF text \notin IntLiterals
              THEN [h |-> Raise(h, <<"invalid literal for int() with base 10: ", text>>),
                    data |-> <<>>]
              ELSE IF ParseInt(text) > 0
              THEN [h |-> h, data |-> SubSeq(r.body, 1, ParseInt(text))]
              ELSE [h |-> h, data |-> <<>>])

\* lines 71-83: relay the response urlopen returned
Relay(h, resp, open) ==
    Bind(end_headers(
           CopyHeaders(send_cors_headers(send_response(h, resp.code, <<Reason(resp.code)>>)),
                       resp.headers),
           open), LAMBDA h2 :
         IF h2.raised THEN h2
         ELSE IF resp.truncated
         THEN Raise(h2, <<"IncompleteRead(0 bytes read)">>)
         ELSE wfile_write(h2, <<BodyBytes(resp.body)>>, open))

\* lines 85-87: except Exception as e
ProxyFailed(h, e, open) ==
    send_error(h, 502, <<"Backend connection failed: ">> \o e, open)

proxy_to_backend(h0, r, e) ==
    Bind(ReadBody(Enter(h0, "proxy_to_backend"), r), LAMBDA rd :
    Bind(IF rd.h.raised THEN rd.h
         ELSE Bind(urlopen(Request(r.path, rd.data, r.method, DictFromMessage(r.headers)),
                           e.backend), LAMBDA o :
              Bind([rd.h EXCEPT !.calls = @ \o o.calls], LAMBDA h1 :
                   IF o.raised THEN Raise(h1, o.exc)
                   ELSE Relay(h1, o.resp, e.clientOpen))), LAMBDA body :
    IF body.raised
    THEN ProxyFailed([body EXCEPT !.raised = FALSE, !.exc = <<>>], body.exc, e.clientOpen)
    ELSE body))

\* lines 103-104: except Exception as e
IndexFailed(h, e, open) ==
    send_error(h, 500, <<"Error serving index: ">> \o e, open)

\* lines 94-100: the template was read, send it
IndexOk(h, open) ==
    wfile_write(
      end_headers(
        send_cors_headers(
          send_header(send_response(h, 200, <<Reason(200)>>), "Content-Type", "text/html")),
        open),
      <<BodyBytes(IndexBytes)>>, open)

\* variant: a missing template is reported like an unreadable one
serve_index_missing_is_500(h0, r, e) ==
    Bind(CASE e.index = "missing" ->
                Raise(Enter(h0, "serve_index"), <<"[Errno 2] No such file or directory">>)
           [] e.index = "unreadable" ->
                Raise(Enter(h0, "serve_index"), <<"[Errno 13] Permission denied">>)
           [] OTHER -> IndexOk(Enter(h0, "serve_index"), e.clientOpen), LAMBDA body :
    IF body.raised
    THEN IndexFailed([body EXCEPT !.raised = FALSE, !.exc = <<>>], body.exc, e.clientOpen)
    ELSE body)

serve_index(h0, r, e) ==
    Bind(CASE e.index = "missing" ->
                send_error(Enter(h0, "serve_index"), 404, <<"index.html not found">>,
                           e.clientOpen)
           [] e.index = "unreadable" ->
                Raise(Enter(h0, "serve_index"), <<"[Errno 13] Permission denied">>)
           [] OTHER -> IndexOk(Enter(h0, "serve_index"), e.clientOpen), LAMBDA body :
    IF body.raised
    THEN IndexFailed([body EXCEPT !.raised = FALSE, !.exc = <<>>], body.exc, e.clientOpen)
    ELSE body)

\* SimpleHTTPRequestHandler.do_GET, reached through super().do_GET()
static_do_GET(h0, r, e) ==
    IF e.static = "missing"
    THEN send_error(Enter(h0, "static"), 404, <<"File not found">>, e.clientOpen)
    ELSE wfile_write(
           end_headers(
             send_header(
               send_header(
                 send_header(send_response(Enter(h0, "static"), 200, <<Reason(200)>>),
                             "Content-type", "text/javascript"),
                 "Content-Length", "2"),
               "Last-Modified", "then"),
             e.clientOpen),
           <<BodyBytes(FileBytes)>>, e.clientOpen)

do_GET(h, r, e) ==
    IF StartsWith(r.path, "api") THEN proxy_to_backend(h, r, e)
    ELSE IF StartsWith(r.path, "read") THEN proxy_to_backend(h, r, e)
    ELSE IF StartsWith(r.path, "static") THEN static_do_GET(h, r, e)
    ELSE serve_index(h, r, e)

\* variant: POST routes by the same prefixes as GET
do_POST_like_GET(h, r, e) ==
    IF StartsWith(r.path, "api") \/ StartsWith(r.path, "read")
    THEN proxy_to_backend(h, r, e)
    ELSE send_error(h, 404, <<Reason(404)>>, e.clientOpen)

do_POST(h, r, e) ==
    IF StartsWith(r.path, "api") THEN proxy_to_backend(h, r, e)
    ELSE send_error(h, 404, <<Reason(404)>>, e.clientOpen)

do_OPTIONS(h, r, e) ==
    end_headers(send_cors_headers(send_response(Enter(h, "do_OPTIONS"), 200, <<Reason(200)>>)),
                e.clientOpen)

\* BaseHTTPRequestHandler.handle_one_request: getattr(self, "do_" + command)
Dispatch(r, e) ==
    CASE r.method = "GET" -> do_GET(NewHandler, r, e)
      [] r.method = "POST" -> do_POST(NewHandler, r, e)
      [] r.method = "OPTIONS" -> do_OPTIONS(NewHandler, r, e)
      [] OTHER -> send_error(NewHandler, 501, <<"Unsupported method (", r.method, ")">>,
                             e.clientOpen)

\* the request is a proxied one whose backend could not be reached
TransportFailed(r, e) ==
    /\ e.backend.reach # "ok"
    /\ \/ r.method = "GET" /\ (StartsWith(r.path, "api") \/ StartsWith(r.path, "read"))
       \/ r.method = "POST" /\ StartsWith(r.path, "api")

(***************************************************************************)
(* main()                                                                  *)
(***************************************************************************)
Platforms == {"darwin", "linux"}
BindCauses == {"EADDRINUSE", "EACCES"}

\* errno of an OSError raised by bind(), by platform
ErrnoOf(os, cause) ==
    CASE cause = "EADDRINUSE" /\ os = "darwin" -> 48
      [] cause = "EADDRINUSE" /\ os = "linux" -> 98
      [] OTHER -> 13

Init ==
    /\ platform \in Platforms
    /\ pc = "start"
    /\ bindAttempts = 0
    /\ bindCause = "none"
    /\ reclaims = 0
    /\ exitCode = NoExit
    /\ phase = "idle"
    /\ req = NoRequest
    /\ env = NoEnv
    /\ wire = <<>>
    /\ calls = <<>>
    /\ trace = <<>>
    /\ escaped = FALSE
    /\ failedBefore = FALSE

procVars == <<platform, pc, bindAttempts, bindCause, reclaims, exitCode>>
connVars == <<phase, req, env, wire, calls, trace, escaped, failedBefore>>

\* lines 131-136: signal.signal(SIGINT, ...), signal.signal(SIGTERM, ...)
InstallSignalHandlers ==
    /\ pc = "start"
    /\ pc' = "bind"
    /\ UNCHANGED <<platform, bindAttempts, bindCause, reclaims, exitCode>>
    /\ UNCHANGED connVars

\* line 139: the port is free, serve_forever starts
BindOk ==
    /\ pc = "bind"
    /\ pc' = "serving"
    /\ bindAttempts' = bindAttempts + 1
    /\ UNCHANGED <<platform, bindCause, reclaims, exitCode>>
    /\ UNCHANGED connVars

\* lines 143-158: bind raised OSError; errno 48 goes on to reclaim the port, others re-raise
BindFails ==
    /\ pc = "bind"
    /\ \E cause \in BindCauses :
        /\ bindCause' = cause
        /\ bindAttempts' = bindAttempts + 1
        /\ IF ErrnoOf(platform, cause) = 48
           THEN pc' = "reclaim" /\ exitCode' = exitCode
           ELSE pc' = "exited" /\ exitCode' = 1
    /\ UNCHANGED <<platform, reclaims>>
    /\ UNCHANGED connVars

\* line 146: os.system("lsof -ti:PORT | xargs kill -9 ...")
ReclaimPort ==
    /\ pc = "reclaim"
    /\ pc' = "sleep"
    /\ reclaims' = reclaims + 1
    /\ UNCHANGED <<platform, bindAttempts, bindCause, exitCode>>
    /\ UNCHANGED connVars

\* line 149: time.sleep(2)
Sleep ==
    /\ pc = "sleep"
    /\ pc' = "rebind"
    /\ UNCHANGED <<platform, bindAttempts, bindCause, reclaims, exitCode>>
    /\ UNCHANGED connVars

\* line 152: the retry succeeds
RebindOk ==
    /\ pc = "rebind"
    /\ pc' = "serving"
    /\ bindAttempts' = bindAttempts + 1
    /\ UNCHANGED <<platform, bindCause, reclaims, exitCode>>
    /\ UNCHANGED connVars

\* lines 154-156: the retry raises OSError, sys.exit(1)
RebindFails ==
    /\ pc = "rebind"
    /\ \E cause \in BindCauses :
        /\ bindCause' = cause
        /\ bindAttempts' = bindAttempts + 1
    /\ pc' = "exited"
    /\ exitCode' = 1
    /\ UNCHANGED <<platform, reclaims>>
    /\ UNCHANGED connVars

\* signal_handler: sys.exit(0), in any state once the handlers are installed;
\* the open connection goes away with the process
Signal ==
    /\ pc \notin {"start", "exited"}
    /\ pc' = "exited"
    /\ exitCode' = 0
    /\ phase' = "idle"
    /\ req' = NoRequest
    /\ env' = NoEnv
    /\ wire' = <<>>
    /\ calls' = <<>>
    /\ trace' = <<>>
    /\ escaped' = FALSE
    /\ UNCHANGED <<platform, bindAttempts, bindCause, reclaims, failedBefore>>

\* one connection: accept, run the handler for the request, write the response
HandleRequest ==
    /\ pc = "serving"
    /\ phase = "idle"
    /\ \E r \in Requests, e \in Envs :
        \E h \in {Dispatch(r, e)} :
            /\ req' = r
            /\ env' = e
            /\ wire' = h.wire
            /\ calls' = h.calls
            /\ trace' = h.trace
            /\ escaped' = h.raised
    /\ phase' = "done"
    /\ UNCHANGED failedBefore
    /\ UNCHANGED procVars

\* shutdown_request: the connection is closed, the server waits for the next one
FinishRequest ==
    /\ pc = "serving"
    /\ phase = "done"
    /\ phase' = "idle"
    /\ failedBefore' = (failedBefore \/ TransportFailed(req, env))
    /\ req' = NoRequest
    /\ env' = NoEnv
    /\ wire' = <<>>
    /\ calls' = <<>>
    /\ trace' = <<>>
    /\ escaped' = FALSE
    /\ UNCHANGED procVars

Next ==
    \/ InstallSignalHandlers
    \/ BindOk
    \/ BindFails
    \/ ReclaimPort
    \/ Sleep
    \/ RebindOk
    \/ RebindFails
    \/ Signal
    \/ HandleRequest
    \/ FinishRequest

Spec == Init /\ [][Next]_vars

(***************************************************************************)
(* Properties                                                              *)
(***************************************************************************)
Done == phase = "done"

Indices(w, kind) == {i \in 1..Len(w) : w[i].kind = kind}

StatusCodes(w) == {w[i].code : i \in Indices(w, "status")}

WireHeaders(w) == {<<w[i].name, w[i].value>> : i \in Indices(w, "header")}

HasCors(w) ==
    /\ <<"Access-Control-Allow-Origin", "*">> \in WireHeaders(w)
    /\ <<"Access-Control-Allow-Methods", "GET, POST, PUT, DELETE, OPTIONS">> \in WireHeaders(w)
    /\ <<"Access-Control-Allow-Headers", "Content-Type, Authorization">> \in WireHeaders(w)

\* exactly one status line and one header block were written, status first
OneResponse(w) ==
    /\ Cardinality(Indices(w, "status")) = 1
    /\ Cardinality(Indices(w, "end")) = 1
    /\ w[1].kind = "status"

Contains(msg, text) == \E i \in 1..Len(msg) : msg[i] = text

ProxyPrefix(path) == StartsWith(path, "api") \/ StartsWith(path, "read")

OtherHandlers == {"serve_index", "static", "do_OPTIONS"}

Ran(name) == \E i \in 1..Len(trace) : trace[i] = name

\* the backend response urlopen ended on: one response is consumed per call
FinalResp == env.backend.resps[Len(calls)]

\* C1: for GET, POST, PUT and DELETE a path under /api/ or /read/ is handed
\* to proxy_to_backend and to no other handler, whatever the method.
C1_PrefixDecidesDestination ==
    (Done /\ req.method \in {"GET", "POST", "PUT", "DELETE"} /\ ProxyPrefix(req.path))
        => /\ Ran("proxy_to_backend")
           /\ \A n \in OtherHandlers : ~Ran(n)
           /\ calls # <<>> => calls[1].method = req.method

\* C2: every response written to the client carries the three CORS headers.
C2_EveryResponseHasCors ==
    (Done /\ wire # <<>>) => HasCors(wire)

\* C3: when the backend answers a proxied request with an HTTP response, the
\* client receives that response's status code, and never a 502 in its place.
C3_BackendStatusPassesThrough ==
    (Done /\ calls # <<>> /\ env.backend.reach = "ok" /\ env.clientOpen)
        => /\ wire[1].kind = "status"
           /\ wire[1].code = env.backend.resps[1].code
           /\ 502 \notin StatusCodes(wire)

\* C4: a backend that cannot be reached costs exactly one attempt, gives that
\* request one 502 response naming the failure, and leaves the server serving:
\* the next connection starts from the same fresh state as any other.
C4_BackendFailureIsTerminal ==
    /\ (Done /\ calls # <<>> /\ env.backend.reach # "ok")
          => /\ Len(calls) = 1
             /\ env.clientOpen
                  => /\ OneResponse(wire)
                     /\ wire[1].code = 502
                     /\ Contains(wire[1].msg, env.backend.reach)
                     /\ wire[Len(wire)] = ErrorPage(502, wire[1].msg)
                     /\ ~escaped
    /\ failedBefore
          => /\ pc = "serving" \/ (pc = "exited" /\ exitCode = 0)
             /\ phase = "idle"
                  => /\ req = NoRequest /\ env = NoEnv
                     /\ wire = <<>> /\ calls = <<>> /\ trace = <<>> /\ ~escaped

\* a request proxied successfully after an earlier one failed to reach the backend
C4_Witness ==
    /\ failedBefore /\ Done /\ pc = "serving"
    /\ calls # <<>> /\ env.backend.reach = "ok" /\ env.clientOpen
    /\ wire # <<>> /\ wire[1].code = 200

\* C5: the request sent to the backend equals the inbound one except for
\* host and port: same method, path and query, body, and set of headers.
C5_ForwardedUnmodified ==
    (Done /\ calls # <<>>)
        => /\ calls[1].method = req.method
           /\ calls[1].path = req.path
           /\ calls[1].body = req.body
           /\ HeaderSet(calls[1].headers) = HeaderSet(req.headers)

RelaySucceeded ==
    /\ Done /\ calls # <<>> /\ env.backend.reach = "ok" /\ env.clientOpen
    /\ FinalResp.code >= 200 /\ FinalResp.code < 300
    /\ ~FinalResp.truncated

\* C6: a successful relay has the backend's status and body verbatim, every
\* backend header outside the exclusion set, none inside it, and the CORS headers.
C6_RelayedResponse ==
    RelaySucceeded
        => /\ OneResponse(wire)
           /\ wire[1].code = FinalResp.code
           /\ wire[Len(wire)] = BodyBytes(FinalResp.body)
           /\ \A i \in 1..Len(FinalResp.headers) :
                Lower(FinalResp.headers[i][1]) \notin ExcludedHeaders
                    => FinalResp.headers[i] \in WireHeaders(wire)
           /\ \A hv \in WireHeaders(wire) : Lower(hv[1]) \notin ExcludedHeaders
           /\ HasCors(wire)

\* a relayed response whose backend headers include excluded names in odd case
C6_Witness ==
    RelaySucceeded /\ FinalResp.headers = RespHdrB /\ Len(calls) = 2

IndexFallthrough ==
    /\ Done /\ req.method = "GET" /\ env.clientOpen
    /\ ~StartsWith(req.path, "api") /\ ~StartsWith(req.path, "read")
    /\ ~StartsWith(req.path, "static")

IndexServed ==
    /\ OneResponse(wire)
    /\ wire[1].code = 200
    /\ <<"Content-Type", "text/html">> \in WireHeaders(wire)
    /\ wire[Len(wire)] = BodyBytes(IndexBytes)

\* C7 (as stated): a GET that falls through to the index responder gets 500
\* when the template is missing or unreadable, and 200 text/html with the
\* file's bytes when it is readable.
C7_MissingIndexIs500 ==
    IndexFallthrough
        => /\ env.index \in {"missing", "unreadable"}
                => OneResponse(wire) /\ wire[1].code = 500
           /\ env.index = "readable" => IndexServed

\* C7 (amended): a missing template gets 404 "index.html not found", a
\* template that exists but cannot be read gets 500, a readable one gets 200
\* text/html with the file's bytes, the same for every fall-through path.
C7_IndexResponses ==
    IndexFallthrough
        => /\ env.index = "missing"
                => /\ OneResponse(wire) /\ wire[1].code = 404
                   /\ wire[1].msg = <<"index.html not found">>
           /\ env.index = "unreadable" => OneResponse(wire) /\ wire[1].code = 500
           /\ env.index = "readable" => IndexServed

\* GET of a client-side route while the template is missing
C7_Witness ==
    /\ IndexFallthrough /\ env.index = "missing"
    /\ req.path.segs = <<"some", "client", "route">>
    /\ wire # <<>>

\* C8: a bind that fails because the address is in use is followed by one
\* reclaim and one retry; a failed retry exits non-zero; bind is never tried
\* more than twice; a signal after the handlers are installed exits with 0.
C8_StartupProtocol ==
    /\ bindAttempts <= 2
    /\ (bindAttempts = 1 /\ bindCause = "EADDRINUSE")
          => \/ pc \in {"reclaim", "sleep", "rebind"}
             \/ pc = "exited" /\ exitCode = 0
    /\ (pc = "exited" /\ exitCode # 0 /\ bindCause = "EADDRINUSE")
          => bindAttempts = 2 /\ reclaims = 1
    /\ pc = "exited" => exitCode \in {0, 1}

\* C9: a POST outside /api/ gets 404 and reaches neither the backend, the
\* static file handler nor the index responder.
C9_PostOutsideApi ==
    (Done /\ req.method = "POST" /\ ~StartsWith(req.path, "api"))
        => /\ calls = <<>>
           /\ ~Ran("proxy_to_backend") /\ ~Ran("static") /\ ~Ran("serve_index")
           /\ env.clientOpen => OneResponse(wire) /\ wire[1].code = 404

\* POST /read/7 answered while the client is connected
C9_Witness ==
    /\ Done /\ req.method = "POST" /\ StartsWith(req.path, "read")
    /\ env.clientOpen /\ wire # <<>>

\* C10: every request gets exactly one status line and one header block,
\* also when something fails after the backend's status has been written.
C10_OneResponsePerRequest ==
    (Done /\ env.clientOpen) => OneResponse(wire)

====
